---- MODULE Spec2Model ----
(***************************************************************************)
(* WebSocket <-> TCP MQTT relay of app/broker_app.py.                      *)
(*                                                                         *)
(* One session = one run of the handler mqtt_websocket_proxy (route        *)
(* "/mqtt") or mqtt_websocket_proxy_opt (route "/mqtt_opt").  The handler  *)
(* and its two relay tasks are asyncio coroutines: a step of the model is  *)
(* the code a coroutine runs between two awaits.  The peers (the client    *)
(* on the WebSocket, the broker on the TCP connection) are the             *)
(* environment: what a read returns or raises is chosen with \E.           *)
(* asyncio semantics assumed (CPython >= 3.8): CancelledError derives from *)
(* BaseException, so "except Exception" does not catch it; Task.cancel()   *)
(* only requests the cancellation, which is delivered when the event loop  *)
(* next resumes the task.                                                  *)
(***************************************************************************)
EXTENDS Integers, Sequences, FiniteSets, TLC

\* ------------------------------------------------------------ constants
FLUSH_THRESHOLD == 131072
BUFFER_SIZE == 65536

\* ------------------------------------------------------------ bounds
\* chunks a client sends on one WebSocket, reads the broker answers per session
MaxChunks == 2
MaxTcpChunks == 2

\* the handler instances the acceptor can run side by side
Sessions == {"s1", "s2"}
\* sizes of the WebSocket messages a client sends (0: an empty frame)
WsSizes == {0, 99, 100, FLUSH_THRESHOLD}
\* sizes reader.read(BUFFER_SIZE) returns: 1..BUFFER_SIZE bytes, ends only
TcpSizes == {1, BUFFER_SIZE}
\* exception classes the transports raise into the relay loops
Errors == {"WebSocketDisconnect", "ConnectionResetError", "RuntimeError", "OSError"}

Tasks == {"ws", "tcp"}
\* a task the event loop no longer runs
Done == {"finished", "cancelled", "failed"}
NoChunk == [n |-> -1, p |-> -1, drained |-> FALSE]

VARIABLES
    impl,            \* what the import at module load bound: "compiled" | "fallback"
    clients,         \* the clients that connect in this run
    feed,            \* per session: the sizes of the WebSocket messages its client sends
    quota,           \* per session: how many chunks its loops read in this run: [ws, tcp]
    route,           \* per session: "" | "/mqtt" | "/mqtt_opt"
    coPc,            \* per session: where the handler coroutine stands
    accepted,        \* per session: client_ws.accept(subprotocol="mqtt") returned
    wsCloseCode,     \* per session: code of client_ws.close(code=...), 0 = not called
    writer,          \* per session: "none" | "open" | "closing" | "closed"
    closes,          \* per session: who called writer.close(), in call order
    cancelReq,       \* per session: tasks on which Task.cancel() was called while pending
    opened,          \* per session: how many times open_connection returned a connection
    closeErr,        \* per session: writer.wait_closed() raised
    task_ws_to_tcp,  \* per session: where the WS->TCP task stands
    task_tcp_to_ws,  \* per session: where the TCP->WS task stands
    pending_bytes,   \* per session: the local counter of ws_to_tcp
    wsIn,            \* per session: chunks ws.iter_bytes() yielded, in order
    tcpOut,          \* per session: chunks given to writer.write(), in order
    tcpDrained,      \* per session: how many chunks of tcpOut a completed drain covers
    wsLast,          \* per session: the last non-empty chunk: size, count before, drain issued
    finalDrain,      \* per session: the drain after the loop (line 112) was issued
    wsEnd,           \* per session: why ws_to_tcp ended
    drainAt,         \* per session: for each drain issued, the chunks written by then
    wsEos,           \* per session: ws.iter_bytes() signalled its end
    tcpIn,           \* per session: chunks reader.read() returned, in order
    wsOut,           \* per session: chunks ws.send_bytes() completed, in order
    tcpEnd,          \* per session: why tcp_to_ws ended
    tcpEof           \* per session: reader.read() returned b""

envVars == <<impl, clients, feed, quota>>
coVars == <<route, coPc, accepted, wsCloseCode, writer, closes, cancelReq, opened, closeErr>>
wsVars == <<task_ws_to_tcp, pending_bytes, wsIn, tcpOut, tcpDrained, wsLast, finalDrain, wsEnd,
            drainAt, wsEos>>
tcpVars == <<task_tcp_to_ws, tcpIn, wsOut, tcpEnd, tcpEof>>
vars == <<envVars, coVars, wsVars, tcpVars>>

Upd(f, s, v) == [f EXCEPT ![s] = v]

\* the state of every session before its client connects
InitSessions ==
    /\ impl \in {"compiled", "fallback"}
    /\ route = [s \in Sessions |-> ""]
    /\ coPc = [s \in Sessions |-> "idle"]
    /\ accepted = [s \in Sessions |-> FALSE]
    /\ wsCloseCode = [s \in Sessions |-> 0]
    /\ writer = [s \in Sessions |-> "none"]
    /\ closes = [s \in Sessions |-> <<>>]
    /\ cancelReq = [s \in Sessions |-> {}]
    /\ task_ws_to_tcp = [s \in Sessions |-> "none"]
    /\ task_tcp_to_ws = [s \in Sessions |-> "none"]
    /\ pending_bytes = [s \in Sessions |-> 0]
    /\ wsIn = [s \in Sessions |-> <<>>]
    /\ tcpOut = [s \in Sessions |-> <<>>]
    /\ tcpDrained = [s \in Sessions |-> 0]
    /\ wsLast = [s \in Sessions |-> NoChunk]
    /\ finalDrain = [s \in Sessions |-> FALSE]
    /\ wsEnd = [s \in Sessions |-> "none"]
    /\ tcpIn = [s \in Sessions |-> <<>>]
    /\ wsOut = [s \in Sessions |-> <<>>]
    /\ tcpEnd = [s \in Sessions |-> "none"]
    /\ opened = [s \in Sessions |-> 0]
    /\ closeErr = [s \in Sessions |-> FALSE]
    /\ drainAt = [s \in Sessions |-> <<>>]
    /\ wsEos = [s \in Sessions |-> FALSE]
    /\ tcpEof = [s \in Sessions |-> FALSE]

\* one client, sending any of WsSizes
Init ==
    /\ InitSessions
    /\ clients = {"s1"}
    /\ feed = [s \in Sessions |-> WsSizes]
    /\ quota = [s \in Sessions |-> [ws |-> MaxChunks, tcp |-> MaxTcpChunks]]

\* every client connects and sends at most one message: the first client 99
\* bytes, and its broker connection answers once; the second 100 bytes, and
\* its broker connection stays silent
InitMulti ==
    /\ InitSessions
    /\ clients = Sessions
    /\ feed = [s \in Sessions |-> IF s = "s1" THEN {99} ELSE {100}]
    /\ quota = [s \in Sessions |-> [ws |-> 1, tcp |-> IF s = "s1" THEN 1 ELSE 0]]

\* Scenario B: one client that sends up to ten chunks of 20,000 bytes
ScenarioB == [size |-> 20000, count |-> 10]

InitScenarioB ==
    /\ InitSessions
    /\ clients = {"s1"}
    /\ feed = [s \in Sessions |-> {ScenarioB.size}]
    /\ quota = [s \in Sessions |-> [ws |-> ScenarioB.count, tcp |-> 1]]

\* ------------------------------------------------------------ acceptor
\* @app.websocket(path): one handler coroutine per inbound upgrade request;
\* it runs up to its first await, asyncio.open_connection.
Accept(s, r) ==
    /\ s \in clients
    /\ coPc[s] = "idle"
    /\ route' = Upd(route, s, r)
    /\ coPc' = Upd(coPc, s, "connect")
    /\ UNCHANGED <<envVars, accepted, wsCloseCode, writer, closes, cancelReq, opened,
                   closeErr,
                   wsVars, tcpVars>>

\* ------------------------------------------------------------ coordinator
\* variant: the tasks are created as soon as the connection is open, without
\* the handshake
ConnectOkEarlyTasks(s) ==
    /\ coPc[s] = "connect"
    /\ writer' = Upd(writer, s, "open")
    /\ task_ws_to_tcp' = Upd(task_ws_to_tcp, s, "created")
    /\ task_tcp_to_ws' = Upd(task_tcp_to_ws, s, "created")
    /\ coPc' = Upd(coPc, s, "wait")
    /\ opened' = Upd(opened, s, opened[s] + 1)
    /\ UNCHANGED <<envVars, route, accepted, wsCloseCode, closes, cancelReq,
                   closeErr,
                   pending_bytes, wsIn, tcpOut, tcpDrained, wsLast, finalDrain, wsEnd,
                   drainAt, wsEos, tcpIn, wsOut, tcpEnd, tcpEof>>

\* open_connection returned (reader, writer); the handler goes on to
\* await client_ws.accept(subprotocol="mqtt").
ConnectOk(s) ==
    /\ coPc[s] = "connect"
    /\ writer' = Upd(writer, s, "open")
    /\ coPc' = Upd(coPc, s, "accept")
    /\ opened' = Upd(opened, s, opened[s] + 1)
    /\ UNCHANGED <<envVars, route, accepted, wsCloseCode, closes, cancelReq,
                   closeErr,
                   wsVars, tcpVars>>

\* variant: the failure is swallowed and the handler goes on to the handshake
ConnectFailsThenAccept(s) ==
    /\ coPc[s] = "connect"
    /\ coPc' = Upd(coPc, s, "accept")
    /\ UNCHANGED <<envVars, route, accepted, wsCloseCode, writer, closes, cancelReq, opened,
                   closeErr,
                   wsVars, tcpVars>>

\* open_connection raised: except Exception -> await client_ws.close(code=1011)
ConnectFails(s) ==
    /\ coPc[s] = "connect"
    /\ wsCloseCode' = Upd(wsCloseCode, s, 1011)
    /\ coPc' = Upd(coPc, s, "close_ws")
    /\ UNCHANGED <<envVars, route, accepted, writer, closes, cancelReq, opened,
                   closeErr,
                   wsVars, tcpVars>>

\* client_ws.close(code=1011) returned; return
CloseWsReturns(s) ==
    /\ coPc[s] = "close_ws"
    /\ coPc' = Upd(coPc, s, "done")
    /\ UNCHANGED <<envVars, route, accepted, wsCloseCode, writer, closes, cancelReq, opened,
                   closeErr,
                   wsVars, tcpVars>>

\* client_ws.close(code=1011) raised: nothing catches it, the handler ends
\* with the exception
CloseWsRaises(s) ==
    /\ coPc[s] = "close_ws"
    /\ coPc' = Upd(coPc, s, "raised")
    /\ UNCHANGED <<envVars, route, accepted, wsCloseCode, writer, closes, cancelReq, opened,
                   closeErr,
                   wsVars, tcpVars>>

\* variant: only the WS->TCP task is created
AcceptOkOneTask(s) ==
    /\ coPc[s] = "accept"
    /\ accepted' = Upd(accepted, s, TRUE)
    /\ task_ws_to_tcp' = Upd(task_ws_to_tcp, s, "created")
    /\ coPc' = Upd(coPc, s, "wait")
    /\ UNCHANGED <<envVars, route, wsCloseCode, writer, closes, cancelReq, opened, closeErr,
                   task_tcp_to_ws, pending_bytes, wsIn, tcpOut, tcpDrained, wsLast,
                   finalDrain, wsEnd, drainAt, wsEos, tcpIn, wsOut, tcpEnd, tcpEof>>

\* client_ws.accept returned: both tasks are created (create_task schedules,
\* it does not run them) and the handler awaits asyncio.wait(FIRST_COMPLETED).
AcceptOk(s) ==
    /\ coPc[s] = "accept"
    /\ accepted' = Upd(accepted, s, TRUE)
    /\ task_ws_to_tcp' = Upd(task_ws_to_tcp, s, "created")
    /\ task_tcp_to_ws' = Upd(task_tcp_to_ws, s, "created")
    /\ coPc' = Upd(coPc, s, "wait")
    /\ UNCHANGED <<envVars, route, wsCloseCode, writer, closes, cancelReq, opened,
                   closeErr,
                   pending_bytes, wsIn, tcpOut, tcpDrained, wsLast, finalDrain, wsEnd,
                   drainAt, wsEos, tcpIn, wsOut, tcpEnd, tcpEof>>

\* client_ws.accept raised (the client went away during the upgrade): nothing
\* in the handler catches it, the handler ends with the exception.
AcceptRaises(s) ==
    /\ coPc[s] = "accept"
    /\ coPc' = Upd(coPc, s, "raised")
    /\ UNCHANGED <<envVars, route, accepted, wsCloseCode, writer, closes, cancelReq, opened,
                   closeErr,
                   wsVars, tcpVars>>

\* variant: no task is cancelled
CancelNone(ws, tcp) == {}

\* variant: only task_ws_to_tcp is cancelled
CancelWsOnly(ws, tcp) == {t \in {"ws"} : ws \notin Done}

\* the tasks Task.cancel() marks, given where the two tasks stand: those
\* that are not done.  /mqtt cancels the pending set of asyncio.wait,
\* /mqtt_opt calls cancel() on both tasks, which does nothing on a done one.

CancelPending(ws, tcp) ==
    {t \in Tasks : (t = "ws" /\ ws \notin Done) \/ (t = "tcp" /\ tcp \notin Done)}

\* variant: writer.close() in the loop over the pending tasks, not after it
CloseWriterPerPending(cl, pend) ==
    IF pend = {} THEN cl ELSE Append(cl, "coordinator")

\* writer.close(), called by the handler once, after the cancel loop
CloseWriter(cl, pend) == Append(cl, "coordinator")

\* asyncio.wait returned: a task is done.  The two first steps of the tasks
\* were queued by create_task before the handler suspended, and the event
\* loop runs its ready queue in order, so both tasks have started by now.
\* Up to the next await: cancel the pending tasks, writer.close(),
\* await writer.wait_closed().
WaitReturns(s) ==
    /\ coPc[s] = "wait"
    /\ task_ws_to_tcp[s] \in Done \/ task_tcp_to_ws[s] \in Done
    /\ task_ws_to_tcp[s] # "created" /\ task_tcp_to_ws[s] # "created"
    /\ cancelReq' = Upd(cancelReq, s, CancelPending(task_ws_to_tcp[s], task_tcp_to_ws[s]))
    /\ closes' = Upd(closes, s,
                     CloseWriter(closes[s], CancelPending(task_ws_to_tcp[s], task_tcp_to_ws[s])))
    /\ writer' = Upd(writer, s, "closing")
    /\ coPc' = Upd(coPc, s, "wait_closed")
    /\ UNCHANGED <<envVars, route, accepted, wsCloseCode, opened, closeErr, wsVars, tcpVars>>

\* writer.wait_closed() returned: the handler returns
WaitClosedReturns(s) ==
    /\ coPc[s] = "wait_closed"
    /\ writer' = Upd(writer, s, "closed")
    /\ coPc' = Upd(coPc, s, "done")
    /\ UNCHANGED <<envVars, route, accepted, wsCloseCode, closes, cancelReq, opened,
                   closeErr,
                   wsVars, tcpVars>>

\* variant: without the try/except around wait_closed
WaitClosedRaisesUncaught(s) ==
    /\ coPc[s] = "wait_closed"
    /\ writer' = Upd(writer, s, "closed")
    /\ closeErr' = Upd(closeErr, s, TRUE)
    /\ coPc' = Upd(coPc, s, "raised")
    /\ UNCHANGED <<envVars, route, accepted, wsCloseCode, closes, cancelReq, opened,
                   wsVars, tcpVars>>

\* writer.wait_closed() raised: except: pass, the handler returns
WaitClosedRaises(s) ==
    /\ coPc[s] = "wait_closed"
    /\ writer' = Upd(writer, s, "closed")
    /\ closeErr' = Upd(closeErr, s, TRUE)
    /\ coPc' = Upd(coPc, s, "done")
    /\ UNCHANGED <<envVars, route, accepted, wsCloseCode, closes, cancelReq, opened,
                   wsVars, tcpVars>>

\* ------------------------------------------------------------ relay loops
\* /mqtt runs ws_to_tcp and tcp_to_ws.  /mqtt_opt runs what the import at
\* the top of the file bound to optimized_ws_to_tcp / optimized_tcp_to_ws:
\* the compiled proxy_core functions, or the fallback coroutines.
\* proxy_core (compiled from proxy_core.pyx) is taken to implement the same
\* two loops as ws_to_tcp and tcp_to_ws.
ProxyCoreIsReference(s) == route[s] = "/mqtt_opt" /\ impl = "compiled"

RunsRelayLoops(s) == route[s] = "/mqtt" \/ ProxyCoreIsReference(s)

RunsFallback(s) == route[s] = "/mqtt_opt" /\ impl = "fallback"

\* async def optimized_ws_to_tcp(ws, writer): pass
FallbackWsToTcp(s) ==
    /\ task_ws_to_tcp[s] = "created"
    /\ RunsFallback(s)
    /\ task_ws_to_tcp' = Upd(task_ws_to_tcp, s, "finished")
    /\ wsEnd' = Upd(wsEnd, s, "stub")
    /\ UNCHANGED <<envVars, coVars, pending_bytes, wsIn, tcpOut, tcpDrained, wsLast,
                   finalDrain, drainAt, wsEos, tcpVars>>

\* async def optimized_tcp_to_ws(reader, ws): pass
FallbackTcpToWs(s) ==
    /\ task_tcp_to_ws[s] = "created"
    /\ RunsFallback(s)
    /\ task_tcp_to_ws' = Upd(task_tcp_to_ws, s, "finished")
    /\ tcpEnd' = Upd(tcpEnd, s, "stub")
    /\ UNCHANGED <<envVars, coVars, wsVars, tcpIn, wsOut, tcpEof>>

\* ---- ws_to_tcp
\* variant: the threshold is compared with the chunk size, not the count
ShouldFlushChunkSize(n, pending) == n < 100 \/ n > FLUSH_THRESHOLD

\* variant: both comparisons inclusive
ShouldFlushInclusive(n, pending) == n <= 100 \/ pending >= FLUSH_THRESHOLD

\* if n < 100 or pending_bytes > FLUSH_THRESHOLD, pending_bytes already
\* counting the chunk
ShouldFlush(n, pending) == n < 100 \/ pending > FLUSH_THRESHOLD

\* variant: small chunks are not written
WriteDropsSmall(out, n) == IF n < 100 THEN out ELSE Append(out, n)

\* writer.write(data)
Write(out, n) == Append(out, n)

\* variant: without the "except Exception" clause
ws_to_tcp_except_first_only(e) ==
    IF e \in {"WebSocketDisconnect", "ConnectionResetError"}
    THEN [status |-> "finished", end |-> "disconnect"]
    ELSE [status |-> "failed", end |-> "error"]

\* the two except clauses of ws_to_tcp: every Exception ends the coroutine
\* normally; the first clause is silent, the second prints.
ws_to_tcp_except(e) ==
    IF e \in {"WebSocketDisconnect", "ConnectionResetError"}
    THEN [status |-> "finished", end |-> "disconnect"]
    ELSE [status |-> "finished", end |-> "error"]

\* first step of the task: pending_bytes = 0, then the first __anext__ of
\* ws.iter_bytes() awaits a message
WsStart(s) ==
    /\ task_ws_to_tcp[s] = "created"
    /\ RunsRelayLoops(s)
    /\ task_ws_to_tcp' = Upd(task_ws_to_tcp, s, "recv")
    /\ pending_bytes' = Upd(pending_bytes, s, 0)
    /\ UNCHANGED <<envVars, coVars, wsIn, tcpOut, tcpDrained, wsLast, finalDrain, wsEnd,
                   drainAt, wsEos, tcpVars>>

\* the iterator yields a chunk of n bytes: lines 98-109 up to the next await
WsChunk(s, n) ==
    /\ task_ws_to_tcp[s] = "recv"
    /\ "ws" \notin cancelReq[s]
    /\ n \in feed[s]
    /\ Len(wsIn[s]) < quota[s].ws
    /\ wsIn' = Upd(wsIn, s, Append(wsIn[s], n))
    /\ IF n = 0
       THEN UNCHANGED <<task_ws_to_tcp, pending_bytes, tcpOut, wsLast, drainAt>>
       ELSE /\ tcpOut' = Upd(tcpOut, s, Write(tcpOut[s], n))
            /\ pending_bytes' = Upd(pending_bytes, s, pending_bytes[s] + n)
            /\ wsLast' = Upd(wsLast, s, [n |-> n, p |-> pending_bytes[s],
                                         drained |-> ShouldFlush(n, pending_bytes[s] + n)])
            /\ task_ws_to_tcp' = Upd(task_ws_to_tcp, s,
                                     IF ShouldFlush(n, pending_bytes[s] + n)
                                     THEN "drain" ELSE "recv")
            /\ drainAt' = Upd(drainAt, s,
                              IF ShouldFlush(n, pending_bytes[s] + n)
                              THEN Append(drainAt[s], Len(tcpOut'[s])) ELSE drainAt[s])
    /\ UNCHANGED <<envVars, coVars, tcpDrained, finalDrain, wsEnd, wsEos, tcpVars>>

\* variant: the counter is one module-level global, reset for every session
WsDrainReturnsGlobalCounter(s) ==
    /\ task_ws_to_tcp[s] = "drain"
    /\ "ws" \notin cancelReq[s]
    /\ pending_bytes' = [x \in Sessions |-> 0]
    /\ tcpDrained' = Upd(tcpDrained, s, Len(tcpOut[s]))
    /\ task_ws_to_tcp' = Upd(task_ws_to_tcp, s, "recv")
    /\ UNCHANGED <<envVars, coVars, wsIn, tcpOut, wsLast, finalDrain, wsEnd, drainAt, wsEos,
                   tcpVars>>

\* variant: the counter is not reset after the drain
WsDrainReturnsNoReset(s) ==
    /\ task_ws_to_tcp[s] = "drain"
    /\ "ws" \notin cancelReq[s]
    /\ tcpDrained' = Upd(tcpDrained, s, Len(tcpOut[s]))
    /\ task_ws_to_tcp' = Upd(task_ws_to_tcp, s, "recv")
    /\ UNCHANGED <<envVars, coVars, pending_bytes, wsIn, tcpOut, wsLast, finalDrain, wsEnd,
                   drainAt, wsEos, tcpVars>>

\* await writer.drain() of line 108 returned: pending_bytes = 0
WsDrainReturns(s) ==
    /\ task_ws_to_tcp[s] = "drain"
    /\ "ws" \notin cancelReq[s]
    /\ pending_bytes' = Upd(pending_bytes, s, 0)
    /\ tcpDrained' = Upd(tcpDrained, s, Len(tcpOut[s]))
    /\ task_ws_to_tcp' = Upd(task_ws_to_tcp, s, "recv")
    /\ UNCHANGED <<envVars, coVars, wsIn, tcpOut, wsLast, finalDrain, wsEnd, drainAt, wsEos,
                   tcpVars>>

\* the iterator is exhausted: the loop ends, line 111
WsEndOfStream(s) ==
    /\ task_ws_to_tcp[s] = "recv"
    /\ "ws" \notin cancelReq[s]
    /\ IF pending_bytes[s] > 0
       THEN /\ task_ws_to_tcp' = Upd(task_ws_to_tcp, s, "final_drain")
            /\ finalDrain' = Upd(finalDrain, s, TRUE)
            /\ drainAt' = Upd(drainAt, s, Append(drainAt[s], Len(tcpOut[s])))
            /\ UNCHANGED wsEnd
       ELSE /\ task_ws_to_tcp' = Upd(task_ws_to_tcp, s, "finished")
            /\ wsEnd' = Upd(wsEnd, s, "clean")
            /\ UNCHANGED <<finalDrain, drainAt>>
    /\ wsEos' = Upd(wsEos, s, TRUE)
    /\ UNCHANGED <<envVars, coVars, pending_bytes, wsIn, tcpOut, tcpDrained, wsLast,
                   tcpVars>>

\* await writer.drain() of line 112 returned: the coroutine returns
WsFinalDrainReturns(s) ==
    /\ task_ws_to_tcp[s] = "final_drain"
    /\ "ws" \notin cancelReq[s]
    /\ tcpDrained' = Upd(tcpDrained, s, Len(tcpOut[s]))
    /\ task_ws_to_tcp' = Upd(task_ws_to_tcp, s, "finished")
    /\ wsEnd' = Upd(wsEnd, s, "clean")
    /\ UNCHANGED <<envVars, coVars, pending_bytes, wsIn, tcpOut, wsLast, finalDrain,
                   drainAt, wsEos, tcpVars>>

\* the await the task is suspended in (the receive of the iterator, a
\* drain) raises e: lines 114-117
WsRaises(s, e) ==
    /\ task_ws_to_tcp[s] \in {"recv", "drain", "final_drain"}
    /\ "ws" \notin cancelReq[s]
    /\ task_ws_to_tcp' = Upd(task_ws_to_tcp, s, ws_to_tcp_except(e).status)
    /\ wsEnd' = Upd(wsEnd, s, ws_to_tcp_except(e).end)
    /\ UNCHANGED <<envVars, coVars, pending_bytes, wsIn, tcpOut, tcpDrained, wsLast,
                   finalDrain, drainAt, wsEos, tcpVars>>

\* the event loop resumes the task after Task.cancel(): CancelledError is
\* thrown at the await, no except clause catches it
WsCancelled(s) ==
    /\ task_ws_to_tcp[s] \in {"recv", "drain", "final_drain"}
    /\ "ws" \in cancelReq[s]
    /\ task_ws_to_tcp' = Upd(task_ws_to_tcp, s, "cancelled")
    /\ wsEnd' = Upd(wsEnd, s, "cancelled")
    /\ UNCHANGED <<envVars, coVars, pending_bytes, wsIn, tcpOut, tcpDrained, wsLast,
                   finalDrain, drainAt, wsEos, tcpVars>>

\* ---- tcp_to_ws
\* the two except clauses of tcp_to_ws
tcp_to_ws_except(e) ==
    IF e \in {"RuntimeError", "ConnectionResetError"}
    THEN [status |-> "finished", end |-> "disconnect"]
    ELSE [status |-> "finished", end |-> "error"]

\* ws.send_bytes(data) completed
Send(out, n) == Append(out, n)

\* first step of the task: await reader.read(BUFFER_SIZE)
TcpStart(s) ==
    /\ task_tcp_to_ws[s] = "created"
    /\ RunsRelayLoops(s)
    /\ task_tcp_to_ws' = Upd(task_tcp_to_ws, s, "read")
    /\ UNCHANGED <<envVars, coVars, wsVars, tcpIn, wsOut, tcpEnd, tcpEof>>

\* variant: the chunk is kept and the loop reads again before sending
TcpDataAccumulates(s, n) ==
    /\ task_tcp_to_ws[s] = "read"
    /\ "tcp" \notin cancelReq[s]
    /\ Len(tcpIn[s]) < quota[s].tcp
    /\ tcpIn' = Upd(tcpIn, s, Append(tcpIn[s], n))
    /\ UNCHANGED <<envVars, coVars, wsVars, task_tcp_to_ws, wsOut, tcpEnd, tcpEof>>

\* read returned n > 0 bytes: await ws.send_bytes(data)
TcpData(s, n) ==
    /\ task_tcp_to_ws[s] = "read"
    /\ "tcp" \notin cancelReq[s]
    /\ Len(tcpIn[s]) < quota[s].tcp
    /\ tcpIn' = Upd(tcpIn, s, Append(tcpIn[s], n))
    /\ task_tcp_to_ws' = Upd(task_tcp_to_ws, s, "send")
    /\ UNCHANGED <<envVars, coVars, wsVars, wsOut, tcpEnd, tcpEof>>

\* variant: the empty read is ignored and the loop reads again
TcpEofContinues(s) ==
    /\ task_tcp_to_ws[s] = "read"
    /\ "tcp" \notin cancelReq[s]
    /\ tcpEof' = Upd(tcpEof, s, TRUE)
    /\ UNCHANGED <<envVars, coVars, wsVars, task_tcp_to_ws, tcpIn, wsOut, tcpEnd>>

\* read returned b"": break
TcpEof(s) ==
    /\ task_tcp_to_ws[s] = "read"
    /\ "tcp" \notin cancelReq[s]
    /\ task_tcp_to_ws' = Upd(task_tcp_to_ws, s, "finished")
    /\ tcpEnd' = Upd(tcpEnd, s, "clean")
    /\ tcpEof' = Upd(tcpEof, s, TRUE)
    /\ UNCHANGED <<envVars, coVars, wsVars, tcpIn, wsOut>>

\* variant: a pending cancellation is not delivered at the send
SendReturnsIgnoresCancel(s) ==
    /\ task_tcp_to_ws[s] = "send"
    /\ wsOut' = Upd(wsOut, s, Send(wsOut[s], tcpIn[s][Len(tcpIn[s])]))
    /\ task_tcp_to_ws' = Upd(task_tcp_to_ws, s, "read")
    /\ UNCHANGED <<envVars, coVars, wsVars, tcpIn, tcpEnd, tcpEof>>

\* send_bytes returned: back to the read
SendReturns(s) ==
    /\ task_tcp_to_ws[s] = "send"
    /\ "tcp" \notin cancelReq[s]
    /\ wsOut' = Upd(wsOut, s, Send(wsOut[s], tcpIn[s][Len(tcpIn[s])]))
    /\ task_tcp_to_ws' = Upd(task_tcp_to_ws, s, "read")
    /\ UNCHANGED <<envVars, coVars, wsVars, tcpIn, tcpEnd, tcpEof>>

\* the read or the send raises e: lines 129-132
TcpRaises(s, e) ==
    /\ task_tcp_to_ws[s] \in {"read", "send"}
    /\ "tcp" \notin cancelReq[s]
    /\ task_tcp_to_ws' = Upd(task_tcp_to_ws, s, tcp_to_ws_except(e).status)
    /\ tcpEnd' = Upd(tcpEnd, s, tcp_to_ws_except(e).end)
    /\ UNCHANGED <<envVars, coVars, wsVars, tcpIn, wsOut, tcpEof>>

\* CancelledError thrown at the await of the read or the send
TcpCancelled(s) ==
    /\ task_tcp_to_ws[s] \in {"read", "send"}
    /\ "tcp" \in cancelReq[s]
    /\ task_tcp_to_ws' = Upd(task_tcp_to_ws, s, "cancelled")
    /\ tcpEnd' = Upd(tcpEnd, s, "cancelled")
    /\ UNCHANGED <<envVars, coVars, wsVars, tcpIn, wsOut, tcpEof>>

\* ------------------------------------------------------------ specification
Coordinator(s) ==
    \/ \E r \in {"/mqtt", "/mqtt_opt"} : Accept(s, r)
    \/ ConnectOk(s)
    \/ ConnectFails(s)
    \/ CloseWsReturns(s)
    \/ CloseWsRaises(s)
    \/ AcceptOk(s)
    \/ AcceptRaises(s)
    \/ WaitReturns(s)
    \/ WaitClosedReturns(s)
    \/ WaitClosedRaises(s)

WsToTcp(s) ==
    \/ FallbackWsToTcp(s)
    \/ WsStart(s)
    \/ \E n \in feed[s] : WsChunk(s, n)
    \/ WsDrainReturns(s)
    \/ WsEndOfStream(s)
    \/ WsFinalDrainReturns(s)
    \/ \E e \in Errors : WsRaises(s, e)
    \/ WsCancelled(s)

TcpToWs(s) ==
    \/ FallbackTcpToWs(s)
    \/ TcpStart(s)
    \/ \E n \in TcpSizes : TcpData(s, n)
    \/ TcpEof(s)
    \/ SendReturns(s)
    \/ \E e \in Errors : TcpRaises(s, e)
    \/ TcpCancelled(s)

Next == \E s \in Sessions : Coordinator(s) \/ WsToTcp(s) \/ TcpToWs(s)

Spec == Init /\ [][Next]_vars

\* The event loop runs every ready callback: a task that was created gets
\* its first step, a cancelled task is resumed with CancelledError, the
\* handler is resumed when asyncio.wait completes.  What the peers send or
\* read, and when, is not fair: a peer may stay silent for ever, and
\* wait_closed completes only when the transport has flushed its buffer to
\* the broker or lost the connection, so it may never complete.
Fairness ==
    \A s \in Sessions :
        /\ WF_vars(WaitReturns(s))
        /\ WF_vars(WsStart(s) \/ FallbackWsToTcp(s))
        /\ WF_vars(TcpStart(s) \/ FallbackTcpToWs(s))
        /\ WF_vars(WsCancelled(s))
        /\ WF_vars(TcpCancelled(s))

FairSpec == Spec /\ Fairness

SpecMulti == InitMulti /\ [][Next]_vars

SpecScenarioB == InitScenarioB /\ [][Next]_vars

\* ------------------------------------------------------------ properties
Started(s) == task_ws_to_tcp[s] # "none" /\ task_tcp_to_ws[s] # "none"

NonEmpty(chunks) == SelectSeq(chunks, LAMBDA n : n > 0)

IsPrefix(a, b) == Len(a) <= Len(b) /\ SubSeq(b, 1, Len(a)) = a

\* C1 (race cancellation): once either relay task of a session is done, the
\* session reaches a state where both tasks are done and writer.close() was
\* called.
C1_RaceCancellation ==
    \A s \in Sessions :
        (Started(s) /\ (task_ws_to_tcp[s] \in Done \/ task_tcp_to_ws[s] \in Done))
            ~> (/\ task_ws_to_tcp[s] \in Done
                /\ task_tcp_to_ws[s] \in Done
                /\ closes[s] # <<>>
                /\ writer[s] \in {"closing", "closed"})

C1_Witness ==
    \E s \in Sessions :
        /\ tcpEnd[s] = "clean"
        /\ task_ws_to_tcp[s] = "cancelled"
        /\ Len(wsIn[s]) > 0
        /\ closes[s] = <<"coordinator">>

\* C2 (single close): writer.close() is called at most once, only by the
\* handler, not before a task is done, and exactly once by the time the
\* handler of a session that started its tasks goes past asyncio.wait.
C2_SingleClose ==
    \A s \in Sessions :
        /\ Len(closes[s]) <= 1
        /\ \A i \in 1..Len(closes[s]) : closes[s][i] = "coordinator"
        /\ (Started(s) /\ coPc[s] \in {"wait_closed", "done"}) => Len(closes[s]) = 1
        /\ coPc[s] \in {"idle", "connect", "accept", "wait"} => closes[s] = <<>>

C2_Witness ==
    \E s \in Sessions :
        /\ wsEnd[s] \in {"clean", "disconnect", "error"}
        /\ tcpEnd[s] \in {"clean", "disconnect", "error"}
        /\ cancelReq[s] = {}
        /\ coPc[s] = "done"
        /\ closes[s] = <<"coordinator">>

\* C3 (connect failure): a handler that is past open_connection without a
\* writer has called client_ws.close(code=1011), has not accepted, has no
\* relay task and no close of a writer, and only returns.
C3_ConnectFailure ==
    \A s \in Sessions :
        (coPc[s] \notin {"idle", "connect"} /\ writer[s] = "none")
            => /\ wsCloseCode[s] = 1011
               /\ ~accepted[s]
               /\ task_ws_to_tcp[s] = "none" /\ task_tcp_to_ws[s] = "none"
               /\ closes[s] = <<>>
               /\ coPc[s] \in {"close_ws", "done", "raised"}

C3_Witness ==
    \E s \in Sessions :
        coPc[s] = "done" /\ writer[s] = "none" /\ wsCloseCode[s] = 1011

\* C4 as claimed (close ordering): whenever writer.close() has been called
\* in a /mqtt session, each relay task is finished or cancelled, none is
\* still running.
C4_CloseAfterBothStopped ==
    \A s \in Sessions :
        (route[s] = "/mqtt" /\ closes[s] # <<>>)
            => /\ task_ws_to_tcp[s] \in {"finished", "cancelled"}
               /\ task_tcp_to_ws[s] \in {"finished", "cancelled"}

\* C4 amended: whenever writer.close() has been called, at least one relay
\* task is done and every task that is not done has had Task.cancel()
\* called on it (it may not have been resumed yet).
C4_CloseAfterCancelRequested ==
    \A s \in Sessions :
        closes[s] # <<>>
            => /\ task_ws_to_tcp[s] \in Done \/ task_tcp_to_ws[s] \in Done
               /\ task_ws_to_tcp[s] \in Done \/ "ws" \in cancelReq[s]
               /\ task_tcp_to_ws[s] \in Done \/ "tcp" \in cancelReq[s]

C4_Witness ==
    \E s \in Sessions :
        /\ closes[s] = <<"coordinator">>
        /\ task_ws_to_tcp[s] = "finished"
        /\ task_tcp_to_ws[s] = "send"
        /\ "tcp" \in cancelReq[s]

\* C5 (startup ordering): a relay task exists only after accept returned,
\* and accept is awaited only after the TCP connection was opened.
C5_StartupOrdering ==
    \A s \in Sessions :
        /\ (task_ws_to_tcp[s] # "none" \/ task_tcp_to_ws[s] # "none")
               => accepted[s] /\ writer[s] # "none"
        /\ (accepted[s] \/ coPc[s] = "accept") => writer[s] # "none"

C5_Witness ==
    \E s \in Sessions :
        /\ accepted[s]
        /\ task_ws_to_tcp[s] = "recv"
        /\ task_tcp_to_ws[s] = "read"
        /\ writer[s] = "open"

\* C6 (flush policy): for the last non-empty chunk, of size n with count p
\* before it, a drain was issued iff n < 100 or p + n > 131072; while the
\* drain is awaited the count is p + n, back at the receive it is 0 after a
\* drain and p + n otherwise.
C6_FlushPolicy ==
    \A s \in Sessions :
        wsLast[s] # NoChunk =>
            LET n == wsLast[s].n
                p == wsLast[s].p
            IN /\ wsLast[s].drained <=> (n < 100 \/ p + n > 131072)
               /\ task_ws_to_tcp[s] = "drain" => wsLast[s].drained /\ pending_bytes[s] = p + n
               /\ task_ws_to_tcp[s] = "recv" =>
                      pending_bytes[s] = IF wsLast[s].drained THEN 0 ELSE p + n

C6_Witness ==
    \E s \in Sessions :
        /\ wsLast[s] = [n |-> 100, p |-> FLUSH_THRESHOLD, drained |-> TRUE]
        /\ task_ws_to_tcp[s] = "recv"
        /\ pending_bytes[s] = 0

\* C7 (no byte loss, no reordering): the chunks written to a sink are, in
\* order, the non-empty chunks read so far (TCP->WS: all but the one being
\* sent); after a clean end they are all of them, and every chunk written
\* to the TCP writer is covered by a completed drain.
C7_NoByteLoss ==
    \A s \in Sessions :
        /\ tcpOut[s] = NonEmpty(wsIn[s])
        /\ IsPrefix(wsOut[s], tcpIn[s])
        /\ task_tcp_to_ws[s] = "read" => wsOut[s] = tcpIn[s]
        /\ wsEnd[s] = "clean" => tcpDrained[s] = Len(tcpOut[s])
        /\ tcpEnd[s] = "clean" => wsOut[s] = tcpIn[s]

C7_Witness ==
    \E s \in Sessions :
        /\ wsEnd[s] = "clean"
        /\ finalDrain[s]
        /\ wsIn[s] = <<99, 100>>
        /\ tcpOut[s] = <<99, 100>>
        /\ tcpEnd[s] = "cancelled"
        /\ wsOut[s] = <<BUFFER_SIZE>>

\* C8 as claimed (final flush): a ws_to_tcp loop of a /mqtt session that
\* has ended, for whatever reason, with a nonzero count for which no drain
\* was issued in the loop, has issued the final drain.
C8_FinalFlushAlways ==
    \A s \in Sessions :
        (/\ route[s] = "/mqtt"
         /\ task_ws_to_tcp[s] \in Done
         /\ pending_bytes[s] > 0
         /\ ~wsLast[s].drained)
            => finalDrain[s]

\* what every /mqtt session satisfies: writer.close() is called only after
\* a relay loop saw its source end or an I/O error
TeardownAfterPeerEvent(s) ==
    closes[s] # <<>>
        => \/ wsEnd[s] \in {"clean", "disconnect", "error"}
           \/ tcpEnd[s] \in {"clean", "disconnect", "error"}

C9_MqttTeardown == \A s \in Sessions : route[s] = "/mqtt" => TeardownAfterPeerEvent(s)

\* C9 as claimed (/mqtt_opt identical to /mqtt): a session on /mqtt_opt,
\* whatever the import bound, tears down only when a session on /mqtt
\* would: after one of its relay loops saw its source end or an I/O error.
C9_OptIdentical == \A s \in Sessions : route[s] = "/mqtt_opt" => TeardownAfterPeerEvent(s)

\* C10 (error containment): no exception escapes a relay task: a task whose
\* read, write or drain raised has returned normally, the handler is then at
\* or past asyncio.wait, and a task ends as cancelled only after
\* Task.cancel() was called on it.
C10_ErrorContainment ==
    \A s \in Sessions :
        /\ task_ws_to_tcp[s] # "failed" /\ task_tcp_to_ws[s] # "failed"
        /\ wsEnd[s] \in {"disconnect", "error"} => task_ws_to_tcp[s] = "finished"
        /\ tcpEnd[s] \in {"disconnect", "error"} => task_tcp_to_ws[s] = "finished"
        /\ task_ws_to_tcp[s] = "cancelled" => "ws" \in cancelReq[s]
        /\ task_tcp_to_ws[s] = "cancelled" => "tcp" \in cancelReq[s]
        /\ (coPc[s] = "done" /\ (wsEnd[s] = "error" \/ tcpEnd[s] = "error"))
               => closes[s] = <<"coordinator">>

C10_Witness ==
    \E s \in Sessions :
        /\ wsEnd[s] = "error"
        /\ task_ws_to_tcp[s] = "finished"
        /\ task_tcp_to_ws[s] = "cancelled"
        /\ coPc[s] = "done"
        /\ closes[s] = <<"coordinator">>

\* everything a session owns
SessionState(s) ==
    <<route[s], coPc[s], accepted[s], wsCloseCode[s], writer[s], closes[s], cancelReq[s],
      opened[s], closeErr[s],
      task_ws_to_tcp[s], pending_bytes[s], wsIn[s], tcpOut[s], tcpDrained[s], wsLast[s],
      finalDrain[s], wsEnd[s], drainAt[s], wsEos[s],
      task_tcp_to_ws[s], tcpIn[s], wsOut[s], tcpEnd[s], tcpEof[s]>>

\* C11 (session independence): a step changes the state of at most one
\* session (its pending count, task statuses, writer state and the rest),
\* and never what the sessions share (the binding made at import).
C11_SessionIndependence ==
    [][/\ impl' = impl
       /\ \A s, x \in Sessions :
              s # x => (SessionState(s)' = SessionState(s) \/ SessionState(x)' = SessionState(x))
      ]_vars

C11_Witness ==
    \E s, x \in Sessions :
        /\ s # x
        /\ coPc[s] = "done" /\ closes[s] = <<"coordinator">> /\ wsEnd[s] = "error"
        /\ task_tcp_to_ws[s] = "cancelled"
        /\ coPc[x] = "wait" /\ writer[x] = "open"
        /\ task_ws_to_tcp[x] = "recv" /\ pending_bytes[x] = 100
        /\ task_tcp_to_ws[x] = "read"

\* C12 (scenario B): a ws_to_tcp loop that read exactly ten chunks of
\* 20,000 bytes and then ended cleanly issued exactly two drains: one with
\* the 7th chunk written, one after the loop with all ten written.
C12_ScenarioB ==
    \A s \in Sessions :
        (wsEnd[s] = "clean" /\ wsIn[s] = [i \in 1..ScenarioB.count |-> ScenarioB.size])
            => /\ drainAt[s] = <<7, 10>>
               /\ finalDrain[s]
               /\ tcpDrained[s] = 10

C12_Witness ==
    \E s \in Sessions :
        /\ wsEnd[s] = "clean"
        /\ Len(wsIn[s]) = 10
        /\ \A i \in 1..10 : wsIn[s][i] = 20000
        /\ drainAt[s] = <<7, 10>>
        /\ pending_bytes[s] = 60000

\* C13 (cardinality): a session opens at most one TCP connection, its two
\* relay tasks exist together or not at all, and while the handler waits
\* for the first task to end both tasks exist.
C13_Cardinality ==
    \A s \in Sessions :
        /\ opened[s] <= 1
        /\ opened[s] = 1 <=> writer[s] # "none"
        /\ task_ws_to_tcp[s] = "none" <=> task_tcp_to_ws[s] = "none"
        /\ coPc[s] = "wait" => task_ws_to_tcp[s] # "none" /\ task_tcp_to_ws[s] # "none"
        /\ Started(s) => opened[s] = 1

C13_Witness ==
    \E s \in Sessions :
        /\ coPc[s] = "wait"
        /\ opened[s] = 1
        /\ task_ws_to_tcp[s] = "drain"
        /\ task_tcp_to_ws[s] = "send"

\* the last chunk the WS->TCP loop read is empty
LastChunkEmpty(s) == Len(wsIn[s]) > 0 /\ wsIn[s][Len(wsIn[s])] = 0

\* C14 as claimed (end of stream): in a /mqtt session each loop has ended
\* cleanly once its source gave a zero-length chunk or signalled its end.
C14_EndOfStreamBoth ==
    \A s \in Sessions :
        route[s] = "/mqtt"
            => /\ tcpEof[s] => task_tcp_to_ws[s] = "finished" /\ tcpEnd[s] = "clean"
               /\ (wsEos[s] \/ LastChunkEmpty(s)) => task_ws_to_tcp[s] \notin {"recv", "drain"}

\* C14 amended: a zero-length TCP read ends tcp_to_ws cleanly.  The end of
\* the WebSocket iterator ends the reading of ws_to_tcp: cleanly at once
\* without pending bytes, else through the final drain; it ends cleanly for
\* no other reason.  A zero-length WebSocket chunk is skipped: the loop
\* keeps reading with the same count.
C14_EndOfStream ==
    \A s \in Sessions :
        /\ tcpEof[s] => task_tcp_to_ws[s] = "finished" /\ tcpEnd[s] = "clean"
        /\ tcpEnd[s] = "clean" => tcpEof[s]
        /\ wsEos[s] => task_ws_to_tcp[s] \in {"final_drain"} \cup Done
        /\ (wsEos[s] /\ ~finalDrain[s]) => task_ws_to_tcp[s] = "finished" /\ wsEnd[s] = "clean"
        /\ wsEnd[s] = "clean" => wsEos[s]
        /\ (LastChunkEmpty(s) /\ ~wsEos[s] /\ wsEnd[s] = "none")
               => /\ task_ws_to_tcp[s] = "recv"
                  /\ pending_bytes[s] =
                         IF wsLast[s] = NoChunk \/ wsLast[s].drained
                         THEN 0 ELSE wsLast[s].p + wsLast[s].n

C14_Witness ==
    \E s \in Sessions :
        /\ wsIn[s] = <<100, 0>>
        /\ task_ws_to_tcp[s] = "recv"
        /\ pending_bytes[s] = 100
        /\ tcpEof[s]
        /\ task_tcp_to_ws[s] = "finished"

\* C15 as claimed (close errors are swallowed): once a relay task of a /mqtt
\* session is done its handler eventually returns.
C15_HandlerAlwaysReturns ==
    \A s \in Sessions :
        (route[s] = "/mqtt" /\ Started(s)
            /\ (task_ws_to_tcp[s] \in Done \/ task_tcp_to_ws[s] \in Done))
            ~> (coPc[s] = "done")

\* C15 amended (close errors are swallowed): once a relay task of a session
\* is done its handler eventually closes the writer and waits for the close;
\* whenever that wait completes, by returning or by raising, the handler
\* returns normally with the writer closed.
C15_CloseErrorsSwallowed ==
    /\ \A s \in Sessions :
           (Started(s) /\ (task_ws_to_tcp[s] \in Done \/ task_tcp_to_ws[s] \in Done))
               ~> (coPc[s] \in {"wait_closed", "done"} /\ closes[s] # <<>>)
    /\ [](\A s \in Sessions : closeErr[s] => coPc[s] = "done")
    /\ [][\A s \in Sessions :
            (coPc[s] = "wait_closed" /\ coPc[s]' # "wait_closed") =>
                (coPc[s]' = "done" /\ writer[s]' = "closed")]_vars

C15_Witness ==
    \E s \in Sessions :
        /\ closeErr[s]
        /\ coPc[s] = "done"
        /\ writer[s] = "closed"
        /\ tcpEnd[s] = "disconnect"
        /\ task_ws_to_tcp[s] = "cancelled"

\* ---- C16
\* a step of the tcp_to_ws loop of session s
TcpToWsStepped(s) ==
    /\ task_tcp_to_ws[s] # "none"
    /\ \/ task_tcp_to_ws[s]' # task_tcp_to_ws[s]
       \/ tcpIn[s]' # tcpIn[s]
       \/ wsOut[s]' # wsOut[s]

\* C16 (TCP->WS never accumulates): whenever the tcp_to_ws loop is at its
\* read, every chunk read from the broker has been sent to the WebSocket,
\* chunk for chunk; while it is at its send exactly the last chunk is in
\* hand; and no step of this loop changes the pending count or the drain
\* state of the other direction.
C16_NoAccumulation ==
    /\ [](\A s \in Sessions :
            /\ task_tcp_to_ws[s] = "read" => wsOut[s] = tcpIn[s]
            /\ task_tcp_to_ws[s] = "send" =>
                   /\ Len(tcpIn[s]) = Len(wsOut[s]) + 1
                   /\ IsPrefix(wsOut[s], tcpIn[s])
            /\ \A i \in 1..Len(tcpIn[s]) : tcpIn[s][i] > 0)
    /\ [][\A s \in Sessions :
            TcpToWsStepped(s) =>
                /\ pending_bytes[s]' = pending_bytes[s]
                /\ tcpDrained[s]' = tcpDrained[s]
                /\ drainAt[s]' = drainAt[s]]_vars

\* two chunks were read and sent while the other direction holds pending bytes
C16_Witness ==
    \E s \in Sessions :
        /\ task_tcp_to_ws[s] = "read"
        /\ Len(tcpIn[s]) = 2
        /\ wsOut[s] = tcpIn[s]
        /\ pending_bytes[s] > 0

\* ---- C17
\* the handler of session s has ended, by returning or by an exception
HandlerEnded(s) == coPc[s] \in {"done", "raised"}

\* C17 (no leaked broker connection): a session whose handler has ended and
\* that had opened a TCP connection to the broker has closed its writer.
C17_NoLeakedConnection ==
    \A s \in Sessions :
        (route[s] = "/mqtt" /\ HandlerEnded(s) /\ opened[s] > 0) =>
            closes[s] # <<>>

\* ---- C18
\* the coordinator has called writer.close() for session s
WriterClosed(s) == closes[s] # <<>>

\* a relay loop of session s wrote to the writer, issued or completed a
\* drain, read from either side or sent to the WebSocket
RelayUsedStreams(s) ==
    \/ tcpOut[s]' # tcpOut[s]
    \/ tcpDrained[s]' # tcpDrained[s]
    \/ drainAt[s]' # drainAt[s]
    \/ finalDrain[s]' # finalDrain[s]
    \/ pending_bytes[s]' # pending_bytes[s]
    \/ wsIn[s]' # wsIn[s]
    \/ tcpIn[s]' # tcpIn[s]
    \/ wsOut[s]' # wsOut[s]

\* C18 (no use after close): once the coordinator has closed the writer of a
\* session, no step writes to or drains that writer and no step sends to the
\* WebSocket; a relay task still pending then has its cancellation requested
\* and its only remaining step is to end.
C18_NoUseAfterClose ==
    /\ [](\A s \in Sessions : WriterClosed(s) =>
            /\ task_ws_to_tcp[s] \notin Done => "ws" \in cancelReq[s]
            /\ task_tcp_to_ws[s] \notin Done => "tcp" \in cancelReq[s])
    /\ [][\A s \in Sessions : WriterClosed(s) =>
            /\ ~RelayUsedStreams(s)
            /\ task_ws_to_tcp[s]' \in {task_ws_to_tcp[s], "cancelled"}
            /\ task_tcp_to_ws[s]' \in {task_tcp_to_ws[s], "cancelled"}]_vars

\* the writer is closed while ws_to_tcp is suspended in a drain and tcp_to_ws
\* has ended: the cancellation is requested and not yet delivered
C18_Witness ==
    \E s \in Sessions :
        /\ WriterClosed(s)
        /\ task_ws_to_tcp[s] = "drain"
        /\ "ws" \in cancelReq[s]
        /\ tcpDrained[s] < Len(tcpOut[s])
        /\ coPc[s] = "done"

\* ---- C19
RECURSIVE SumBytes(_)
\* pending_bytes += n over a sequence of chunks
SumBytes(chunks) ==
    IF chunks = <<>> THEN 0 ELSE chunks[1] + SumBytes(Tail(chunks))

\* the chunks written since the last completed drain
Undrained(s) == SubSeq(tcpOut[s], tcpDrained[s] + 1, Len(tcpOut[s]))

\* ws_to_tcp of session s is about to read the next chunk
AtRead(s) == task_ws_to_tcp[s] = "recv"

\* C19 as stated (bounded pending count): at every read of the WS->TCP loop
\* 0 <= pending <= 131072, pending is 0 when the chunk just received is
\* smaller than 100 bytes, and a nonzero pending is the sum of the last
\* consecutive received chunks, each of size >= 100.
C19_BoundedPendingAnyChunk ==
    \A s \in Sessions : (route[s] = "/mqtt" /\ AtRead(s)) =>
        /\ 0 <= pending_bytes[s] /\ pending_bytes[s] <= FLUSH_THRESHOLD
        /\ (Len(wsIn[s]) > 0 /\ wsIn[s][Len(wsIn[s])] < 100) => pending_bytes[s] = 0
        /\ pending_bytes[s] > 0 =>
               \E k \in 1..Len(wsIn[s]) :
                   /\ \A i \in (Len(wsIn[s]) - k + 1)..Len(wsIn[s]) : wsIn[s][i] >= 100
                   /\ SumBytes(SubSeq(wsIn[s], Len(wsIn[s]) - k + 1, Len(wsIn[s])))
                          = pending_bytes[s]

\* C19 (bounded pending count, empty chunks skipped): at every read of the
\* WS->TCP loop 0 <= pending <= 131072, pending is 0 when the last non-empty
\* chunk received is smaller than 100 bytes, and pending is the sum of the
\* non-empty chunks received since the last drain, each of size >= 100.
C19_BoundedPending ==
    \A s \in Sessions : AtRead(s) =>
        /\ 0 <= pending_bytes[s] /\ pending_bytes[s] <= FLUSH_THRESHOLD
        /\ tcpOut[s] = NonEmpty(wsIn[s])
        /\ (tcpOut[s] # <<>> /\ tcpOut[s][Len(tcpOut[s])] < 100) => pending_bytes[s] = 0
        /\ pending_bytes[s] = SumBytes(Undrained(s))
        /\ \A i \in 1..Len(Undrained(s)) : Undrained(s)[i] >= 100

\* a 100-byte chunk is pending and an empty chunk was received after it
C19_Witness ==
    \E s \in Sessions :
        /\ AtRead(s)
        /\ LastChunkEmpty(s)
        /\ pending_bytes[s] = 100
        /\ Undrained(s) = <<100>>

====
